---- MODULE Spec2Model ----
(***************************************************************************)
(* Model of the opencode Codex API-key plugin: the loader and its custom   *)
(* fetch (src/index.ts) and the fetch helpers it calls (URL rewriting,     *)
(* request transformation, error remapping, success handling).             *)
(*                                                                         *)
(* JavaScript strings are TLA+ strings; a character is a string of length  *)
(* one, obtained with SubSeq.                                              *)
(***************************************************************************)
EXTENDS Integers, Sequences, FiniteSets, TLC

VARIABLES
    rw,     \* SpecRewrite: the call of rewriteUrlForCodex being examined
    em,     \* SpecRemap: the call of handleErrorResponse being examined
    ic,     \* SpecCache: the instruction cache and the callers awaiting it
    sse,    \* SpecSse: the call of convertSseToJson being examined
    env,    \* Spec: what the host hands the loader (credential, configuration)
    sdk,    \* Spec: what the loader returned to the host
    call    \* Spec: the frame of the running call of the loader's fetch

vars == <<rw, em, ic, sse, env, sdk, call>>

(***************************************************************************)
(* Bounds.                                                                 *)
(***************************************************************************)
\* longest path (in segments) of a request URL handed to the URL rewriter
MaxSegs == 2

(***************************************************************************)
(* JavaScript values and string primitives.                                *)
(***************************************************************************)
\* the JavaScript value undefined (an omitted optional argument or field)
Undefined == "\\undefined"

\* JavaScript truthiness of an optional string: undefined and "" are falsy
Truthy(v) == v # Undefined /\ v # ""

\* String.prototype.indexOf, 1-based; 0 when pat does not occur in s
IndexOf(s, pat) ==
    LET n == Len(s) - Len(pat) + 1
        hits == {i \in 1..n : SubSeq(s, i, i + Len(pat) - 1) = pat}
    IN  IF hits = {} THEN 0 ELSE CHOOSE i \in hits : \A j \in hits : i <= j

\* String.prototype.includes
Includes(s, pat) == IndexOf(s, pat) # 0

\* String.prototype.replace with a string pattern: the FIRST occurrence only
ReplaceFirst(s, pat, rep) ==
    LET i == IndexOf(s, pat)
    IN  IF i = 0 THEN s
        ELSE SubSeq(s, 1, i - 1) \o rep \o SubSeq(s, i + Len(pat), Len(s))

\* String.prototype.endsWith
EndsWith(s, suf) ==
    Len(s) >= Len(suf) /\ SubSeq(s, Len(s) - Len(suf) + 1, Len(s)) = suf

\* the character of s at position i (1-based); "" beyond the end
CharAt(s, i) == IF i >= 1 /\ i <= Len(s) THEN SubSeq(s, i, i) ELSE ""

UpperLetters == "ABCDEFGHIJKLMNOPQRSTUVWXYZ"
LowerLetters == "abcdefghijklmnopqrstuvwxyz"
Digits == "0123456789"

\* the lower-case letter of every upper-case letter
LowerMap ==
    [c \in {SubSeq(UpperLetters, i, i) : i \in 1 .. Len(UpperLetters)} |->
        SubSeq(LowerLetters, IndexOf(UpperLetters, c), IndexOf(UpperLetters, c))]

LowerChar(c) == IF c \in DOMAIN LowerMap THEN LowerMap[c] ELSE c

\* String.prototype.toLowerCase
RECURSIVE ToLowerCase(_)
ToLowerCase(s) ==
    IF s = "" THEN ""
    ELSE LowerChar(SubSeq(s, 1, 1)) \o ToLowerCase(SubSeq(s, 2, Len(s)))

(***************************************************************************)
(* JSON.  A parsed value is a tuple tagged with its type:                  *)
(*   <<"undefined">> (no JSON value: what a missing property reads as)     *)
(*   <<"null">>  <<"bool", b>>  <<"num", digits>>  <<"str", s>>            *)
(*   <<"arr", <<v1, ...>> >>    <<"obj", << <<key, v>>, ... >> >>          *)
(* JSONParse is a recursive-descent parser of the JSON grammar without     *)
(* string escapes, fractions and exponents (no modelled text uses them).   *)
(***************************************************************************)
JUndefined == <<"undefined">>
JNull == <<"null">>
JBool(b) == <<"bool", b>>
JNum(d) == <<"num", d>>
JStr(str) == <<"str", str>>
JArr(elems) == <<"arr", elems>>
JObj(members) == <<"obj", members>>

ParseFail == [ok |-> FALSE, val |-> JNull, pos |-> 0]
ParseOk(v, next) == [ok |-> TRUE, val |-> v, pos |-> next]

IsWs(c) == c = " " \/ c = "\n" \/ c = "\t" \/ c = "\r"
IsDigit(c) == c # "" /\ Includes(Digits, c)

\* the first position at or after i that holds no white space
RECURSIVE SkipWs(_, _)
SkipWs(s, i) == IF IsWs(CharAt(s, i)) THEN SkipWs(s, i + 1) ELSE i

\* the position of the quote closing the string whose text starts at i;
\* 0 when the string is not closed or holds a backslash or a line break
RECURSIVE StringEnd(_, _)
StringEnd(s, i) ==
    LET c == CharAt(s, i)
    IN  IF c = "" \/ c = "\\" \/ c = "\n" THEN 0
        ELSE IF c = "\"" THEN i
        ELSE StringEnd(s, i + 1)

\* s[i] is the opening quote
ParseString(s, i) ==
    LET j == StringEnd(s, i + 1)
    IN  IF j = 0 THEN ParseFail ELSE ParseOk(JStr(SubSeq(s, i + 1, j - 1)), j + 1)

RECURSIVE DigitsEnd(_, _)
DigitsEnd(s, i) == IF IsDigit(CharAt(s, i)) THEN DigitsEnd(s, i + 1) ELSE i

\* an integer: an optional minus sign, then 0 or a digit string not starting with 0
ParseNumber(s, i) ==
    LET d == IF CharAt(s, i) = "-" THEN i + 1 ELSE i
        e == DigitsEnd(s, d)
    IN  IF e = d \/ (CharAt(s, d) = "0" /\ e > d + 1)
        THEN ParseFail
        ELSE ParseOk(JNum(SubSeq(s, i, e - 1)), e)

ParseLiteral(s, i, word, v) ==
    IF i + Len(word) - 1 <= Len(s) /\ SubSeq(s, i, i + Len(word) - 1) = word
    THEN ParseOk(v, i + Len(word))
    ELSE ParseFail

\* obj[key] = v on the member list of an object: an existing key keeps its
\* place and takes the new value, a new key goes last
PutMember(members, key, v) ==
    IF \E i \in 1..Len(members) : members[i][1] = key
    THEN [i \in 1..Len(members) |->
            IF members[i][1] = key THEN <<key, v>> ELSE members[i]]
    ELSE Append(members, <<key, v>>)

RECURSIVE ParseValue(_, _), ParseMembers(_, _, _), ParseElements(_, _, _)
\* the value that starts at position i (white space before it already skipped)
ParseValue(s, i) ==
    LET c == CharAt(s, i)
    IN  CASE c = "{" ->
               IF CharAt(s, SkipWs(s, i + 1)) = "}"
               THEN ParseOk(JObj(<<>>), SkipWs(s, i + 1) + 1)
               ELSE ParseMembers(s, SkipWs(s, i + 1), <<>>)
          [] c = "[" ->
               IF CharAt(s, SkipWs(s, i + 1)) = "]"
               THEN ParseOk(JArr(<<>>), SkipWs(s, i + 1) + 1)
               ELSE ParseElements(s, SkipWs(s, i + 1), <<>>)
          [] c = "\"" -> ParseString(s, i)
          [] c = "t" -> ParseLiteral(s, i, "true", JBool(TRUE))
          [] c = "f" -> ParseLiteral(s, i, "false", JBool(FALSE))
          [] c = "n" -> ParseLiteral(s, i, "null", JNull)
          [] c = "-" \/ IsDigit(c) -> ParseNumber(s, i)
          [] OTHER -> ParseFail

\* the members of an object from position i (the key's opening quote) on
ParseMembers(s, i, acc) ==
    IF CharAt(s, i) # "\"" THEN ParseFail
    ELSE LET k == ParseString(s, i)
         IN  IF ~k.ok \/ CharAt(s, SkipWs(s, k.pos)) # ":" THEN ParseFail
             ELSE LET v == ParseValue(s, SkipWs(s, SkipWs(s, k.pos) + 1))
                  IN  IF ~v.ok THEN ParseFail
                      ELSE LET n == SkipWs(s, v.pos)
                               members == PutMember(acc, k.val[2], v.val)
                           IN  CASE CharAt(s, n) = "}" -> ParseOk(JObj(members), n + 1)
                                 [] CharAt(s, n) = "," ->
                                      ParseMembers(s, SkipWs(s, n + 1), members)
                                 [] OTHER -> ParseFail

\* the elements of an array from position i on
ParseElements(s, i, acc) ==
    LET v == ParseValue(s, i)
    IN  IF ~v.ok THEN ParseFail
        ELSE LET n == SkipWs(s, v.pos)
                 elems == Append(acc, v.val)
             IN  CASE CharAt(s, n) = "]" -> ParseOk(JArr(elems), n + 1)
                   [] CharAt(s, n) = "," -> ParseElements(s, SkipWs(s, n + 1), elems)
                   [] OTHER -> ParseFail

\* JSON.parse(text): ok is FALSE where JSON.parse throws a SyntaxError
JSONParse(text) ==
    LET r == ParseValue(text, SkipWs(text, 1))
    IN  IF r.ok /\ SkipWs(text, r.pos) = Len(text) + 1 THEN r ELSE ParseFail

\* JSON.stringify(v) of a parsed value (no text modelled needs an escape)
RECURSIVE Stringify(_), StringifyMembers(_), StringifyElems(_)
Stringify(v) ==
    CASE v[1] = "null" -> "null"
      [] v[1] = "bool" -> IF v[2] THEN "true" ELSE "false"
      [] v[1] = "num" -> v[2]
      [] v[1] = "str" -> "\"" \o v[2] \o "\""
      [] v[1] = "arr" -> "[" \o StringifyElems(v[2]) \o "]"
      [] v[1] = "obj" -> "{" \o StringifyMembers(v[2]) \o "}"
StringifyMembers(members) ==
    IF members = <<>> THEN ""
    ELSE "\"" \o Head(members)[1] \o "\":" \o Stringify(Head(members)[2])
         \o (IF Len(members) > 1 THEN "," \o StringifyMembers(Tail(members)) ELSE "")
StringifyElems(elems) ==
    IF elems = <<>> THEN ""
    ELSE Stringify(Head(elems))
         \o (IF Len(elems) > 1 THEN "," \o StringifyElems(Tail(elems)) ELSE "")

\* v?.key : undefined for null, undefined, a primitive, an array and an
\* object without the key (the last duplicate key wins)
RECURSIVE Lookup(_, _, _)
Lookup(members, key, n) ==
    IF n = 0 THEN JUndefined
    ELSE IF members[n][1] = key THEN members[n][2]
    ELSE Lookup(members, key, n - 1)

OptGet(v, key) ==
    IF v[1] = "obj" THEN Lookup(v[2], key, Len(v[2])) ELSE JUndefined

\* a ?? b
Nullish(v) == v[1] = "undefined" \/ v[1] = "null"
Coalesce(a, b) == IF Nullish(a) THEN b ELSE a

\* value.toString() of a value that is neither null nor undefined
RECURSIVE JsToString(_), JoinElems(_)
JsToString(v) ==
    CASE v[1] = "str" -> v[2]
      [] v[1] = "num" -> v[2]
      [] v[1] = "bool" -> IF v[2] THEN "true" ELSE "false"
      [] v[1] = "obj" -> "[object Object]"
      [] v[1] = "arr" -> JoinElems(v[2])
      [] OTHER -> ""
\* Array.prototype.join(","): null and undefined elements give ""
JoinElems(elems) ==
    IF elems = <<>> THEN ""
    ELSE (IF Head(elems)[1] = "null" THEN "" ELSE JsToString(Head(elems)))
         \o (IF Len(elems) > 1 THEN "," \o JoinElems(Tail(elems)) ELSE "")

(***************************************************************************)
(* Responses.  A Response object has an identity (id), a status line,      *)
(* headers and a body stream; bodyUsed tells whether its own stream was    *)
(* read.  A stream has an identity and a content: the text it delivers, or *)
(* StreamError when reading it fails.                                      *)
(***************************************************************************)
HTTP_STATUS_NOT_FOUND == 404
HTTP_STATUS_TOO_MANY_REQUESTS == 429

StreamError == "\\stream-error"

Stream(sid, content) == [stream |-> sid, content |-> content]

Response(id, status, statusText, headers, body) ==
    [id |-> id, status |-> status, statusText |-> statusText,
     headers |-> headers, body |-> body, bodyUsed |-> FALSE]

\* the JavaScript value null where a Response is expected
NullResponse == [id |-> 0]

\* new Headers(init): a copy holding the same names and values
NewHeaders(init) ==
    [n \in {ToLowerCase(k) : k \in DOMAIN init} |->
        init[CHOOSE k \in DOMAIN init : ToLowerCase(k) = n]]

\* a test that takes every response for a success
OkWhateverStatus(response) == response.status >= 100

\* response.ok
Ok(response) == response.status >= 200 /\ response.status <= 299

(***************************************************************************)
(* Error remapper (fetch-helpers): mapUsageLimit404, handleErrorResponse.  *)
(***************************************************************************)
\* await clone.text() inside try/catch: the text of the clone's stream, ""
\* when reading throws
CloneText(response) ==
    IF response.body.content = StreamError THEN "" ELSE response.body.content

\* (parsed?.error?.code ?? parsed?.error?.type ?? "").toString() inside
\* try/catch: "" when JSON.parse throws
CodeOrType(err) ==
    JsToString(Coalesce(OptGet(err, "code"), Coalesce(OptGet(err, "type"), JStr(""))))

ErrorCodeOfParsed(parsed) ==
    IF ~parsed.ok THEN "" ELSE CodeOrType(OptGet(parsed.val, "error"))

ErrorCode(text) == ErrorCodeOfParsed(JSONParse(text))

\* /usage_limit_reached|usage_not_included|rate_limit_exceeded|usage limit/i.test(h)
UsageLimitPhrases ==
    {"usage_limit_reached", "usage_not_included", "rate_limit_exceeded", "usage limit"}

UsageLimitRegexTest(h) == \E ph \in UsageLimitPhrases : Includes(ToLowerCase(h), ph)

\* a haystack that leaves the raw text out
HaystackCodeOnly(code, text) == ToLowerCase(code)

\* the haystack the pattern is tested on
Haystack(code, text) == ToLowerCase(code \o " " \o text)

\* a remapper that gives up when the body is not JSON
MatchesUsageLimitJsonOnly(text) ==
    JSONParse(text).ok /\ UsageLimitRegexTest(Haystack(ErrorCode(text), text))

MatchesUsageLimit(text) == UsageLimitRegexTest(Haystack(ErrorCode(text), text))

\* the new Response(response.body, {status: 429, statusText, headers})
TooManyRequests(response) ==
    Response(response.id + 1, HTTP_STATUS_TOO_MANY_REQUESTS, "Too Many Requests",
             NewHeaders(response.headers), response.body)

\* what mapUsageLimit404 hands back: ret is the returned Response or null,
\* response the argument as the call leaves it, cloned whether
\* response.clone() was called
Mapped(ret, response, cloned) == [ret |-> ret, response |-> response, cloned |-> cloned]

\* mapUsageLimit404 from the text of the clone on
MapClonedText(response, text) ==
    IF text = "" THEN Mapped(NullResponse, response, TRUE)
    ELSE IF ~MatchesUsageLimit(text) THEN Mapped(NullResponse, response, TRUE)
    ELSE Mapped(TooManyRequests(response), response, TRUE)

\* a remapper without the status guard
mapUsageLimit404AnyStatus(response) == MapClonedText(response, CloneText(response))

\* the same from the text of the response's own body, which is then used
MapOwnText(used, text) ==
    IF text = "" \/ ~MatchesUsageLimit(text)
    THEN Mapped(NullResponse, used, FALSE)
    ELSE Mapped(TooManyRequests(used), used, FALSE)

\* a remapper that reads the response's own body instead of a clone's
mapUsageLimit404NoClone(response) ==
    IF response.status # HTTP_STATUS_NOT_FOUND
    THEN Mapped(NullResponse, response, FALSE)
    ELSE MapOwnText([response EXCEPT !.bodyUsed = TRUE], CloneText(response))

mapUsageLimit404(response) ==
    IF response.status # HTTP_STATUS_NOT_FOUND
    THEN Mapped(NullResponse, response, FALSE)
    ELSE MapClonedText(response, CloneText(response))

\* mapped ?? response
FinalResponse(m) == IF m.ret.id = NullResponse.id THEN m.response ELSE m.ret

\* what handleErrorResponse hands back: ret is the returned Response, logged
\* what it passed to logRequest
Handled(m, finalResponse) ==
    [ret |-> finalResponse, response |-> m.response, cloned |-> m.cloned,
     logged |-> [status |-> finalResponse.status,
                 statusText |-> finalResponse.statusText]]

HandleMapped(m) == Handled(m, FinalResponse(m))

handleErrorResponse(response) == HandleMapped(mapUsageLimit404(response))

(***************************************************************************)
(* The responses a backend can send.                                       *)
(***************************************************************************)
\* the body texts of the backend's responses
Body ==
    [UsageLimitCode |-> "{\"error\":{\"code\":\"usage_limit_reached\"}}",
     ModelNotFound |-> "{\"error\":{\"code\":\"model_not_found\"}}",
     TypeOnly |-> "{\"error\":{\"type\":\"usage_not_included\"}}",
     NullCodeType |-> "{\"error\":{\"code\":null,\"type\":\"rate_limit_exceeded\"}}",
     UpperCode |-> "{\"error\":{\"code\":\"USAGE_LIMIT_REACHED\"}}",
     MessageOnly |-> "{\"error\":{\"message\":\"You have hit your usage limit.\"}}",
     Detail |-> "{\"detail\":\"Not Found\"}",
     ErrorString |-> "{\"error\":\"not found\"}",
     NumCode |-> "{\"error\":{\"code\":404}}",
     Null |-> "null",
     PlainNotFound |-> "Not Found",
     PlainUsage |-> "Usage limit reached",
     Truncated |-> "{\"error\":{\"code\":\"usage_limit_reached\"}",
     TruncatedOther |-> "{\"error\":{\"code\":\"model_not_found\"}"]

ErrorBodies ==
    {"", StreamError,
     Body.UsageLimitCode, Body.ModelNotFound, Body.TypeOnly, Body.NullCodeType,
     Body.UpperCode, Body.MessageOnly, Body.Detail, Body.ErrorString, Body.NumCode,
     Body.Null, Body.PlainNotFound, Body.PlainUsage, Body.Truncated,
     Body.TruncatedOther}

Statuses == {200, 400, 401, 404, 429, 500}

ReasonPhrase(status) ==
    CASE status = 200 -> "OK"
      [] status = 400 -> "Bad Request"
      [] status = 401 -> "Unauthorized"
      [] status = 404 -> "Not Found"
      [] status = 429 -> "Too Many Requests"
      [] OTHER -> "Internal Server Error"

EmptyHeaders == [n \in {} |-> ""]
BackendHeaders ==
    {EmptyHeaders,
     ("content-type" :> "application/json") @@ ("x-request-id" :> "req-1")}

\* every response: the status text is absent or the status's reason phrase
BackendResponses ==
    UNION {{Response(1, st, stx, h, Stream(1, c)) :
               stx \in {"", ReasonPhrase(st)}, h \in BackendHeaders, c \in ErrorBodies} :
           st \in Statuses}

(***************************************************************************)
(* Specification SpecRemap: handleErrorResponse applied to every response. *)
(***************************************************************************)
\* the value of a variable the specification at hand does not use, and of
\* sdk and call before the loader is invoked and before fetch is called
Idle == [state |-> "idle", pc |-> "idle"]

InitRemap ==
    /\ em \in {[state |-> "input", arg |-> r, response |-> r,
                ret |-> NullResponse, cloned |-> FALSE] : r \in BackendResponses}
    /\ rw = Idle /\ ic = Idle /\ sse = Idle
    /\ env = Idle /\ sdk = Idle /\ call = Idle

EmReturn(e, h) ==
    [e EXCEPT !.state = "returned", !.response = h.response, !.ret = h.ret,
              !.cloned = h.cloned]

ApplyHandleErrorResponse ==
    /\ em.state = "input"
    /\ em' = EmReturn(em, handleErrorResponse(em.response))
    /\ UNCHANGED <<rw, ic, sse, env, sdk, call>>

NextRemap == ApplyHandleErrorResponse

SpecRemap == InitRemap /\ [][NextRemap]_vars

(***************************************************************************)
(* Claims about the error remapper, checked under SpecRemap.  The bodies   *)
(* are classified here by reading them, not by running the remapper.       *)
(***************************************************************************)
\* bodies whose error code, error type or raw text holds a usage-limit phrase
UsageLimitBodies ==
    {Body.UsageLimitCode, Body.TypeOnly, Body.NullCodeType, Body.UpperCode,
     Body.MessageOnly, Body.PlainUsage, Body.Truncated}

\* non-empty bodies that hold no usage-limit phrase
OtherBodies ==
    {Body.ModelNotFound, Body.Detail, Body.ErrorString, Body.NumCode, Body.Null,
     Body.PlainNotFound, Body.TruncatedOther}

\* non-empty bodies that JSON.parse rejects
InvalidJsonBodies ==
    {Body.PlainNotFound, Body.PlainUsage, Body.Truncated, Body.TruncatedOther}

EmReturned == em.state = "returned"

\* the call returned the very response it was given, with nothing changed
EmUnchanged == em.ret = em.arg /\ em.response = em.arg

\* the call returned a new 429 response around the argument's body and headers
EmRemapped ==
    /\ em.ret.id # em.arg.id
    /\ em.ret.status = 429
    /\ em.ret.statusText = "Too Many Requests"
    /\ em.ret.body = em.arg.body
    /\ em.ret.headers = em.arg.headers
    /\ ~em.ret.bodyUsed
    /\ em.response = em.arg

\* C3: a 404 response whose body's error code/type or raw text matches a
\* usage-limit phrase comes back as a new response with status 429 and
\* status text "Too Many Requests" that carries the original body stream
\* (unread) and the original headers; and whatever the response, the body
\* of what is returned is the body stream that came in, never a made-up one.
C3_UsageLimit404Becomes429 ==
    EmReturned =>
        /\ em.ret.body = em.arg.body
        /\ (em.arg.status = 404 /\ em.arg.body.content \in UsageLimitBodies) => EmRemapped

\* C3 witness: the body {"error":{"code":"usage_limit_reached"}} on a 404
\* with headers was remapped.
C3_Witness ==
    /\ EmReturned
    /\ em.arg.status = 404
    /\ em.arg.body.content = Body.UsageLimitCode
    /\ em.arg.headers # EmptyHeaders
    /\ EmRemapped

\* C4: for a response whose status is not 404 the remapper returns the same
\* response object with the same status, headers and body stream, and it
\* neither clones nor reads the body.
C4_Non404Identity ==
    (EmReturned /\ em.arg.status # 404) =>
        EmUnchanged /\ ~em.cloned /\ ~em.ret.bodyUsed

\* C4 witness: a 500 response whose body names a usage limit came back as it was.
C4_Witness ==
    /\ EmReturned
    /\ em.arg.status = 500
    /\ em.arg.body.content = Body.UsageLimitCode
    /\ EmUnchanged
    /\ ~em.cloned

\* C5: a 404 response whose body matches no usage-limit phrase, or is empty
\* (or cannot be read), comes back unchanged with status 404 and with its
\* body unread, the inspection having gone through a clone.
C5_NoMatch404Unchanged ==
    (/\ EmReturned
     /\ em.arg.status = 404
     /\ em.arg.body.content \in OtherBodies \cup {"", StreamError}) =>
        /\ EmUnchanged
        /\ em.ret.status = 404
        /\ ~em.ret.bodyUsed
        /\ em.cloned

\* C5 witness: the body {"error":{"code":"model_not_found"}} on a 404 was
\* inspected on a clone and the response returned as it was.
C5_Witness ==
    /\ EmReturned
    /\ em.arg.status = 404
    /\ em.arg.body.content = Body.ModelNotFound
    /\ EmUnchanged
    /\ em.cloned
    /\ ~em.ret.bodyUsed

\* C6 (the claim as stated): when the body of a 404 response is not valid
\* JSON the response is returned unchanged with status 404, whatever the
\* raw text holds.
C6_ParseFailureUnchanged ==
    (EmReturned /\ em.arg.status = 404 /\ em.arg.body.content \in InvalidJsonBodies) =>
        EmUnchanged /\ em.ret.status = 404

\* C6 (amended): when the body of a 404 response is not valid JSON the
\* response is returned unchanged with status 404 unless its raw text holds
\* a usage-limit phrase, and is remapped to 429 when it does.
C6_ParseFailureFallsBackToRawText ==
    (EmReturned /\ em.arg.status = 404 /\ em.arg.body.content \in InvalidJsonBodies) =>
        IF em.arg.body.content \in UsageLimitBodies
        THEN EmRemapped
        ELSE EmUnchanged /\ em.ret.status = 404

\* C6 witness: the 404 body "Not Found", which is not JSON and names no
\* usage limit, was returned unchanged.
C6_Witness ==
    /\ EmReturned
    /\ em.arg.status = 404
    /\ em.arg.body.content = Body.PlainNotFound
    /\ ~JSONParse(em.arg.body.content).ok
    /\ EmUnchanged

(***************************************************************************)
(* URL rewriter (fetch-helpers).                                           *)
(***************************************************************************)
URL_PATHS_RESPONSES == "/responses"
URL_PATHS_CODEX_RESPONSES == "/codex/responses"

\* a rewriter that forgets the custom-base-URL branch
rewriteUrlForCodexAlways(url, customBaseURL) ==
    ReplaceFirst(url, URL_PATHS_RESPONSES, URL_PATHS_CODEX_RESPONSES)

rewriteUrlForCodex(url, customBaseURL) ==
    IF Truthy(customBaseURL)
    THEN url
    ELSE ReplaceFirst(url, URL_PATHS_RESPONSES, URL_PATHS_CODEX_RESPONSES)

(***************************************************************************)
(* Request URLs, kept with their components so that a property can speak   *)
(* of the scheme, host, path and query of the URL that was passed in.      *)
(***************************************************************************)
Scheme == "https://"
Hosts == {"api.example.com", "responses.example.com"}
Segments == {"/v1", "/responses", "/codex", "/chat"}
Queries == {"", "?next=/responses"}

RECURSIVE Join(_)
Join(segs) == IF segs = <<>> THEN "" ELSE Head(segs) \o Join(Tail(segs))

Paths == UNION {[1..n -> Segments] : n \in 0..MaxSegs}

UrlParts == [host : Hosts, path : Paths, query : Queries]

\* the URL string of the components
Render(p) == Scheme \o p.host \o Join(p.path) \o p.query

\* the values of the optional customBaseURL argument
CustomBaseURLs == {Undefined, "", "https://custom.example.com"}

(***************************************************************************)
(* Specification SpecRewrite: rewriteUrlForCodex applied to every input.   *)
(***************************************************************************)
InitRewrite ==
    /\ rw \in [state : {"input"}, parts : UrlParts, customBaseURL : CustomBaseURLs,
               result : {Undefined}]
    /\ em = Idle /\ ic = Idle /\ sse = Idle
    /\ env = Idle /\ sdk = Idle /\ call = Idle

ApplyRewrite ==
    /\ rw.state = "input"
    /\ rw' = [rw EXCEPT !.state = "returned",
                        !.result = rewriteUrlForCodex(Render(rw.parts), rw.customBaseURL)]
    /\ UNCHANGED <<em, ic, sse, env, sdk, call>>

NextRewrite == ApplyRewrite

SpecRewrite == InitRewrite /\ [][NextRewrite]_vars

(***************************************************************************)
(* Claims about the URL rewriter, checked under SpecRewrite.               *)
(***************************************************************************)
RwReturned == rw.state = "returned"

RwUrl == Render(rw.parts)

\* the URL of the components with the path's last segment, when it is
\* "/responses", replaced by "/codex/responses"; scheme, host, the earlier
\* segments and the query as they were
SuffixRewritten(p) ==
    LET n == Len(p.path)
    IN  IF n > 0 /\ p.path[n] = URL_PATHS_RESPONSES
        THEN Scheme \o p.host \o Join(SubSeq(p.path, 1, n - 1))
                    \o URL_PATHS_CODEX_RESPONSES \o p.query
        ELSE Render(p)

\* C7: with a customBaseURL present (a non-empty string, which is what the
\* code's test "if (customBaseURL)" accepts) rewriteUrlForCodex returns the
\* URL it was given, character for character, for every URL, also one that
\* ends in /responses.
C7_CustomBaseUnmodified ==
    (RwReturned /\ Truthy(rw.customBaseURL)) => rw.result = RwUrl

\* C7 witness: a URL ending in /responses came back unmodified under a
\* custom base URL.
C7_Witness ==
    /\ RwReturned
    /\ Truthy(rw.customBaseURL)
    /\ rw.parts.query = ""
    /\ EndsWith(RwUrl, URL_PATHS_RESPONSES)
    /\ rw.result = RwUrl

\* C8 (the claim as stated): without a customBaseURL the result is the URL
\* with its "/responses" path suffix replaced by "/codex/responses" and with
\* scheme, host, earlier path segments and query untouched, for every URL.
C8_SuffixReplacedRestUntouched ==
    (RwReturned /\ rw.customBaseURL = Undefined) => rw.result = SuffixRewritten(rw.parts)

(***************************************************************************)
(* Loader (index.ts): the credential and the configuration it reads, and   *)
(* the SDK configuration it returns.                                       *)
(***************************************************************************)
\* the default base URL of lib/constants.js
CODEX_BASE_URL == "https://chatgpt.com/backend-api"

\* a || b || c on optional strings
FirstTruthy(a, b, c) == IF Truthy(a) THEN a ELSE IF Truthy(b) THEN b ELSE c

\* what the host can hand the loader: the credential of getAuth(), the
\* baseURL of the plugin configuration file and of the provider
\* configuration, and the CODEX_MODE that getCodexMode resolves
Envs ==
    [authType : {"api", "oauth"},
     apiKey : {"sk-test"},
     pluginBaseURL : {Undefined, "https://plugin.example.com"},
     providerBaseURL : {Undefined, "https://your-codex-api.com"},
     codexMode : BOOLEAN]

\* a loader that reads the plugin configuration before it looks at the
\* credential
loaderConfigFirst(e) ==
    IF e.authType # "api"
    THEN [state |-> "empty",
          effects |-> <<"getAuth", "loadPluginConfig", "console.error">>]
    ELSE [state |-> "ready",
          effects |-> <<"getAuth", "loadPluginConfig", "getCodexMode">>,
          apiKey |-> e.apiKey,
          baseURL |-> FirstTruthy(e.pluginBaseURL, e.providerBaseURL, CODEX_BASE_URL),
          codexMode |-> e.codexMode]

\* the object the loader returns: {} ("empty") for a credential that is no
\* API key, else apiKey, baseURL and the fetch closure over them; effects
\* are the calls the loader made on the way
loader(e) ==
    IF e.authType # "api"
    THEN [state |-> "empty", effects |-> <<"getAuth", "console.error">>]
    ELSE [state |-> "ready",
          effects |-> <<"getAuth", "loadPluginConfig", "getCodexMode">>,
          apiKey |-> e.apiKey,
          baseURL |-> FirstTruthy(e.pluginBaseURL, e.providerBaseURL, CODEX_BASE_URL),
          codexMode |-> e.codexMode]

(***************************************************************************)
(* Requests: the arguments of fetch(input, init).                          *)
(***************************************************************************)
\* init is absent, or holds headers and an optional body
NoInit == [present |-> FALSE, body |-> Undefined, headers |-> EmptyHeaders]
RequestInit(body, headers) == [present |-> TRUE, body |-> body, headers |-> headers]

\* init?.body, as a condition
HasBody(init) == init.present /\ Truthy(init.body)

\* the body texts of the caller's requests
ReqBody ==
    [Stream |-> "{\"model\":\"gpt-5.1-codex\",\"stream\":true,\"input\":[]}",
     NoStream |-> "{\"model\":\"gpt-5.1-codex-mini\",\"input\":[]}",
     StreamFalse |-> "{\"model\":\"gpt-5.1-codex\",\"stream\":false,"
                     \o "\"input\":[\"hi\"],\"user_tag\":\"x\",\"reasoning\":null}",
     StreamString |-> "{\"model\":\"gpt-5.1-codex\",\"stream\":\"true\"}",
     Invalid |-> "{\"model\":\"gpt-5.1-codex\",\"stream\":true",
     Null |-> "null"]

RequestBodies ==
    {Undefined, ReqBody.Stream, ReqBody.NoStream, ReqBody.StreamFalse,
     ReqBody.StreamString, ReqBody.Invalid, ReqBody.Null}

CallerHeaders ==
    {EmptyHeaders,
     ("authorization" :> "Bearer caller") @@ ("Content-Type" :> "text/plain")
        @@ ("x-trace" :> "t-1")}

Inits == {NoInit} \cup {RequestInit(b, h) : b \in RequestBodies, h \in CallerHeaders}

\* the URLs the SDK addresses, given the baseURL the loader returned to it
InputKinds == {"string", "URL", "Request"}
InputPaths == {"/responses", "/chat/completions"}
RequestObjectHeaders == "x-client" :> "sdk"
FetchInputs(baseURL) ==
    {[kind |-> k, url |-> baseURL \o q,
      headers |-> IF k = "Request" THEN RequestObjectHeaders ELSE EmptyHeaders] :
        k \in InputKinds, q \in InputPaths}

extractRequestUrl(input) ==
    CASE input.kind = "string" -> input.url
      [] input.kind = "URL" -> input.url
      [] OTHER -> input.url

\* Headers.set(name, value): names are case-insensitive and kept in lower case
HeadersSet(h, name, value) ==
    [k \in DOMAIN h \cup {ToLowerCase(name)} |->
        IF k = ToLowerCase(name) THEN value ELSE h[k]]

(***************************************************************************)
(* Request transformation.  transformRequestForCodex is in the source; the *)
(* functions it calls (normalizeModel, getModelFamily,                     *)
(* getCodexInstructions, transformRequestBody) are described by the        *)
(* specification only.                                                     *)
(***************************************************************************)
\* the canonical identifier: an identifier passes through, a missing one
\* becomes the default model
normalizeModel(model) == IF model[1] = "str" THEN model[2] ELSE "gpt-5.1"

getModelFamily(normalizedModel) ==
    IF Includes(normalizedModel, "5.2") THEN "5.2"
    ELSE IF Includes(normalizedModel, "max") THEN "5.1-max"
    ELSE IF Includes(normalizedModel, "mini") THEN "5.1-mini"
    ELSE "5.1"

\* how a call of getCodexInstructions can settle: it resolves with the
\* payload, or the fetch fails and the error propagates to the caller
getCodexInstructionsOutcomes == {"resolved", "rejected"}

\* the instruction payload getCodexInstructions resolves with
CodexInstructions(normalizedModel) ==
    "Codex instructions " \o getModelFamily(normalizedModel)

BridgeInstruction == " Bridge: use the caller's tools."

DefaultReasoning == JObj(<< <<"effort", JStr("medium")>>, <<"summary", JStr("auto")>> >>)
DefaultText == JObj(<< <<"verbosity", JStr("medium")>> >>)

\* a transformer that also forces the body to ask for a stream
transformRequestBodyForcingStream(body, codexInstructions, codexMode) ==
    JObj(PutMember(PutMember(PutMember(body[2],
        "model", JStr(normalizeModel(OptGet(body, "model")))),
        "instructions", JStr(codexInstructions)),
        "stream", JBool(TRUE)))

\* a new body: model made canonical, instructions injected (with the bridge
\* instruction in CODEX_MODE), reasoning and verbosity options set
transformRequestBody(body, codexInstructions, codexMode) ==
    JObj(PutMember(PutMember(PutMember(PutMember(body[2],
        "model", JStr(normalizeModel(OptGet(body, "model")))),
        "instructions",
            JStr(codexInstructions \o (IF codexMode THEN BridgeInstruction ELSE ""))),
        "reasoning", DefaultReasoning),
        "text", DefaultText))

\* how far transformRequestForCodex gets before its first await:
\*   "no-body"  it returns undefined at once (index.ts:315)
\*   "caught"   JSON.parse or body.model throws, the catch returns undefined
\*   "await"    it awaits getCodexInstructions
TransformProbeParsed(parsed) ==
    IF ~parsed.ok THEN "caught"
    ELSE IF parsed.val[1] = "null" THEN "caught"
    ELSE "await"

TransformProbe(init) ==
    IF ~HasBody(init) THEN "no-body" ELSE TransformProbeParsed(JSONParse(init.body))

\* the value of transformRequestForCodex: undefined, or updatedInit
NoTransformation == [defined |-> FALSE, updatedInit |-> NoInit]

TransformedOf(init, body, codexMode) ==
    [defined |-> TRUE,
     updatedInit |->
        [init EXCEPT !.body =
            Stringify(transformRequestBody(
                body,
                CodexInstructions(normalizeModel(OptGet(body, "model"))),
                codexMode))]]

\* transformRequestForCodex once getCodexInstructions has resolved
TransformResolved(init, codexMode) ==
    TransformedOf(init, JSONParse(init.body).val, codexMode)

\* transformation?.updatedInit ?? init
RequestInitOf(transformation, init) ==
    IF transformation.defined THEN transformation.updatedInit ELSE init

(***************************************************************************)
(* Success handling.  handleSuccessResponse is in the source;              *)
(* ensureContentType and convertSseToJson are described by the             *)
(* specification only.                                                     *)
(***************************************************************************)
EventStreamType == "text/event-stream; charset=utf-8"

\* the headers with a content type that says event stream when none is declared
ensureContentType(headers) ==
    IF "content-type" \in DOMAIN headers
    THEN NewHeaders(headers)
    ELSE HeadersSet(headers, "content-type", EventStreamType)

\* the blocks of text between occurrences of sep
RECURSIVE SplitOn(_, _)
SplitOn(text, sep) ==
    IF ~Includes(text, sep) THEN <<text>>
    ELSE <<SubSeq(text, 1, IndexOf(text, sep) - 1)>>
         \o SplitOn(SubSeq(text, IndexOf(text, sep) + Len(sep), Len(text)), sep)

\* the JSON payload of an event block: what follows "data: "
EventPayload(block) ==
    IF Len(block) >= 6 /\ SubSeq(block, 1, 6) = "data: "
    THEN SubSeq(block, 7, Len(block))
    ELSE ""

EventType(ev) ==
    IF ev.ok /\ ev.val[1] = "obj" /\ OptGet(ev.val, "type")[1] = "str"
    THEN OptGet(ev.val, "type")[2]
    ELSE "malformed"

EventDelta(ev) ==
    IF OptGet(ev.val, "delta")[1] = "str" THEN OptGet(ev.val, "delta")[2] ELSE ""

\* the fold over the events: text deltas are appended, a completion event
\* ends the decoding, every other event is skipped
RECURSIVE Aggregate(_, _, _)
\* a fold that gives up at the first event it cannot use
AggregateEventAborting(blocks, i, acc, ev) ==
    CASE EventType(ev) = "response.output_text.delta" ->
            Aggregate(blocks, i + 1, acc \o EventDelta(ev))
      [] OTHER -> acc

AggregateEvent(blocks, i, acc, ev) ==
    CASE EventType(ev) = "response.completed" -> acc
      [] EventType(ev) = "response.output_text.delta" ->
            Aggregate(blocks, i + 1, acc \o EventDelta(ev))
      [] OTHER -> Aggregate(blocks, i + 1, acc)
Aggregate(blocks, i, acc) ==
    IF i > Len(blocks) THEN acc
    ELSE AggregateEvent(blocks, i, acc, JSONParse(EventPayload(blocks[i])))

SseToJson(text) ==
    Stringify(JObj(<< <<"output_text", JStr(Aggregate(SplitOn(text, "\n\n"), 1, ""))>> >>))

\* one synthesized JSON document in a new response
convertSseToJson(response, headers) ==
    Response(response.id + 1, response.status, response.statusText,
             HeadersSet(headers, "content-type", "application/json; charset=utf-8"),
             Stream(response.body.stream + 1,
                    IF response.body.content = StreamError
                    THEN StreamError
                    ELSE SseToJson(response.body.content)))

handleSuccessResponse(response, isStreaming) ==
    IF ~isStreaming
    THEN convertSseToJson(response, ensureContentType(response.headers))
    ELSE Response(response.id + 1, response.status, response.statusText,
                  ensureContentType(response.headers), response.body)

(***************************************************************************)
(* The loader's fetch (index.ts:135-181), one action per stretch of code   *)
(* between two awaits, and one per numbered step of the code.  The frame   *)
(* of the running call:                                                    *)
(*   pc              where the call is                                     *)
(*   input, init     its arguments                                         *)
(*   url             the rewritten URL (step 1)                            *)
(*   isStreaming     originalBody.stream === true (step 2)                 *)
(*   instructions    how getCodexInstructions settled                      *)
(*   transformation  the value of transformRequestForCodex                 *)
(*   dispatched      the requests this call handed to the global fetch     *)
(*   response        the backend's response                                *)
(*   ret, error      the response the call resolved with, or the error it  *)
(*                   rejected with                                         *)
(*   hist            the steps the call has completed, in order            *)
(***************************************************************************)
NoError == "none"

NewCall(input, init) ==
    [pc |-> "step1", input |-> input, init |-> init, url |-> Undefined,
     isStreaming |-> FALSE, instructions |-> "none",
     transformation |-> NoTransformation, dispatched |-> <<>>,
     response |-> NullResponse, ret |-> NullResponse, error |-> NoError,
     hist |-> <<>>]

Thrown(c, error) == [c EXCEPT !.pc = "thrown", !.error = error]

\* a capture that takes any truthy stream value for streaming
CaptureOfParsedTruthy(parsed) ==
    IF ~parsed.ok THEN [error |-> "SyntaxError", isStreaming |-> FALSE]
    ELSE IF parsed.val[1] = "null" THEN [error |-> "TypeError", isStreaming |-> FALSE]
    ELSE [error |-> NoError,
          isStreaming |-> IF OptGet(parsed.val, "stream")[1] = "bool"
                          THEN OptGet(parsed.val, "stream")[2]
                          ELSE Truthy(JsToString(OptGet(parsed.val, "stream")))]

\* const originalBody = init?.body ? JSON.parse(init.body as string) : {};
\* const isStreaming = originalBody.stream === true;
\* JSON.parse throws a SyntaxError on a body that is not JSON, and reading
\* .stream of the value null throws a TypeError
CaptureOfParsed(parsed) ==
    IF ~parsed.ok THEN [error |-> "SyntaxError", isStreaming |-> FALSE]
    ELSE IF parsed.val[1] = "null" THEN [error |-> "TypeError", isStreaming |-> FALSE]
    ELSE [error |-> NoError,
          isStreaming |-> /\ OptGet(parsed.val, "stream")[1] = "bool"
                          /\ OptGet(parsed.val, "stream")[2]]

CaptureStream(init) ==
    IF ~HasBody(init)
    THEN [error |-> NoError, isStreaming |-> FALSE]
    ELSE CaptureOfParsed(JSONParse(init.body))

\* a fetch that does not await the transformation before it goes on
AfterCaptureNoAwait == "step3"

\* where the call goes after step 2 captured the stream flag: into
\* transformRequestForCodex, which it awaits
AfterCapture == "transform"

Captured(c, cap) ==
    IF cap.error # NoError
    THEN Thrown(c, cap.error)
    ELSE [c EXCEPT !.pc = AfterCapture, !.isStreaming = cap.isStreaming,
                   !.hist = Append(@, "capture-stream")]

\* a request that keeps an Authorization header the caller already set
OutgoingRequestKeepingAuth(url, requestInit, apiKey) ==
    [url |-> url,
     body |-> requestInit.body,
     headers |-> HeadersSet(
                    IF "authorization" \in DOMAIN NewHeaders(requestInit.headers)
                    THEN NewHeaders(requestInit.headers)
                    ELSE HeadersSet(NewHeaders(requestInit.headers),
                                    "Authorization", "Bearer " \o apiKey),
                    "Content-Type", "application/json")]

\* the request handed to the global fetch: fetch(url, {...requestInit, headers})
\* with Authorization and Content-Type set on a copy of the request's headers
OutgoingRequest(url, requestInit, apiKey) ==
    [url |-> url,
     body |-> requestInit.body,
     headers |-> HeadersSet(HeadersSet(NewHeaders(requestInit.headers),
                                       "Authorization", "Bearer " \o apiKey),
                            "Content-Type", "application/json")]

\* the responses the backend sends to a dispatched request
Sse_Hello ==
    "data: {\"type\":\"response.output_text.delta\",\"delta\":\"Hel\"}\n\n"
    \o "data: {\"type\":\"response.output_text.delta\",\"delta\":\"lo\"}\n\n"
    \o "data: {\"type\":\"response.completed\"}\n\n"

PipelineResponses ==
    {Response(1, 200, "OK", h, Stream(1, Sse_Hello)) : h \in BackendHeaders}
    \cup {Response(1, st, ReasonPhrase(st), EmptyHeaders, Stream(1, c)) :
            st \in {401, 404, 500},
            c \in {"", Body.UsageLimitCode, Body.ModelNotFound}}

\* values looked up again, in the configuration of the moment, by every request
ResolvedPerRequest(s, e) ==
    [apiKey |-> e.apiKey,
     baseURL |-> FirstTruthy(e.pluginBaseURL, e.providerBaseURL, CODEX_BASE_URL),
     codexMode |-> e.codexMode]

\* codexMode, customBaseURL and apiKey as the fetch closure holds them: the
\* constants of the loader invocation that made it
Resolved(s, e) == [apiKey |-> s.apiKey, baseURL |-> s.baseURL, codexMode |-> s.codexMode]

\* the host invokes the loader; seen keeps what the host handed it
Loader ==
    /\ sdk.state = "idle"
    /\ sdk' = [seen |-> env] @@ loader(env)
    /\ UNCHANGED <<rw, em, ic, sse, env, call>>

\* the key and the base URL the user enters when authorizing again
Rotated == [key |-> "sk-rotated", baseURL |-> "https://rotated.example.com"]

\* the user authorizes again: the plugin configuration gets the new baseURL
\* and the host stores the new key as the credential
Authorize ==
    /\ sdk.state \in {"empty", "ready"}
    /\ env.apiKey # Rotated.key
    /\ env' = [env EXCEPT !.authType = "api", !.apiKey = Rotated.key,
                          !.pluginBaseURL = Rotated.baseURL]
    /\ UNCHANGED <<rw, em, ic, sse, sdk, call>>

\* the CODEX_MODE setting is changed after the loader returned
EditCodexMode ==
    /\ sdk.state \in {"empty", "ready"}
    /\ env' = [env EXCEPT !.codexMode = ~@]
    /\ UNCHANGED <<rw, em, ic, sse, sdk, call>>

\* the caller has its response or its error: the frame of the call is gone
CallEnd ==
    /\ call.pc \in {"returned", "thrown"}
    /\ call' = Idle
    /\ UNCHANGED <<rw, em, ic, sse, env, sdk>>

\* the SDK calls the fetch the loader returned
FetchCall ==
    /\ sdk.state = "ready"
    /\ call.pc = "idle"
    /\ \E input \in FetchInputs(Resolved(sdk, env).baseURL), init \in Inits :
          call' = NewCall(input, init)
    /\ UNCHANGED <<rw, em, ic, sse, env, sdk>>

\* Step 1: extract and rewrite the URL
Step1RewriteUrl ==
    /\ call.pc = "step1"
    /\ call' = [call EXCEPT
                  !.pc = "step2",
                  !.url = rewriteUrlForCodex(extractRequestUrl(call.input),
                                            Resolved(sdk, env).baseURL),
                  !.hist = Append(@, "url-rewrite")]
    /\ UNCHANGED <<rw, em, ic, sse, env, sdk>>

\* Step 2, first half: capture the original stream value
Step2CaptureStream ==
    /\ call.pc = "step2"
    /\ call' = Captured(call, CaptureStream(call.init))
    /\ UNCHANGED <<rw, em, ic, sse, env, sdk>>

\* Step 2, second half: transformRequestForCodex up to its first await
TransformBegin ==
    /\ call.pc = "transform"
    /\ call' = IF TransformProbe(call.init) = "await"
               THEN [call EXCEPT !.pc = "await-instructions",
                                 !.instructions = "pending"]
               ELSE [call EXCEPT !.pc = "step3",
                                 !.transformation = NoTransformation,
                                 !.hist = Append(@, "body-transform")]
    /\ UNCHANGED <<rw, em, ic, sse, env, sdk>>

\* getCodexInstructions resolves: the body is transformed and the
\* transformation returned
InstructionsResolve ==
    /\ call.pc = "await-instructions"
    /\ "resolved" \in getCodexInstructionsOutcomes
    /\ call' = [call EXCEPT
                  !.pc = "step3",
                  !.instructions = "resolved",
                  !.transformation = TransformResolved(call.init, Resolved(sdk, env).codexMode),
                  !.hist = Append(@, "body-transform")]
    /\ UNCHANGED <<rw, em, ic, sse, env, sdk>>

\* getCodexInstructions rejects: the catch of transformRequestForCodex logs
\* the error and returns undefined
InstructionsReject ==
    /\ call.pc = "await-instructions"
    /\ "rejected" \in getCodexInstructionsOutcomes
    /\ call' = [call EXCEPT
                  !.pc = "step3",
                  !.instructions = "rejected",
                  !.transformation = NoTransformation,
                  !.hist = Append(@, "body-transform")]
    /\ UNCHANGED <<rw, em, ic, sse, env, sdk>>

\* Steps 3 and 4: build the headers and hand the request to the global fetch
Step4Dispatch ==
    /\ call.pc = "step3"
    /\ call' = [call EXCEPT
                  !.pc = "await-backend",
                  !.dispatched =
                      Append(@, OutgoingRequest(call.url,
                                                RequestInitOf(call.transformation, call.init),
                                                Resolved(sdk, env).apiKey)),
                  !.hist = Append(@, "dispatch")]
    /\ UNCHANGED <<rw, em, ic, sse, env, sdk>>

\* the global fetch resolves with the backend's response
BackendRespond ==
    /\ call.pc = "await-backend"
    /\ \E response \in PipelineResponses :
          call' = [call EXCEPT !.pc = "step6", !.response = response,
                               !.hist = Append(@, "response")]
    /\ UNCHANGED <<rw, em, ic, sse, env, sdk>>

\* the global fetch rejects (network error)
BackendFail ==
    /\ call.pc = "await-backend"
    /\ call' = Thrown(call, "NetworkError")
    /\ UNCHANGED <<rw, em, ic, sse, env, sdk>>

\* Step 6, a response that is not ok: handleErrorResponse
Step6HandleError ==
    /\ call.pc = "step6"
    /\ ~Ok(call.response)
    /\ call' = [call EXCEPT !.pc = "returned",
                            !.ret = handleErrorResponse(call.response).ret,
                            !.hist = Append(@, "error-remap")]
    /\ UNCHANGED <<rw, em, ic, sse, env, sdk>>

\* Step 6, an ok response: handleSuccessResponse
Step6HandleSuccess ==
    /\ call.pc = "step6"
    /\ Ok(call.response)
    /\ call' = [call EXCEPT !.pc = "returned",
                            !.ret = handleSuccessResponse(call.response, call.isStreaming),
                            !.hist = Append(@, "response-translate")]
    /\ UNCHANGED <<rw, em, ic, sse, env, sdk>>

Init ==
    /\ env \in Envs
    /\ sdk = Idle
    /\ call = Idle
    /\ rw = Idle
    /\ em = Idle
    /\ ic = Idle
    /\ sse = Idle

Next ==
    \/ Loader
    \/ Authorize
    \/ EditCodexMode
    \/ FetchCall
    \/ Step1RewriteUrl
    \/ Step2CaptureStream
    \/ TransformBegin
    \/ InstructionsResolve
    \/ InstructionsReject
    \/ Step4Dispatch
    \/ BackendRespond
    \/ BackendFail
    \/ Step6HandleError
    \/ Step6HandleSuccess
    \/ CallEnd

Spec == Init /\ [][Next]_vars

(***************************************************************************)
(* Claims about the fetch pipeline, checked under Spec.                    *)
(***************************************************************************)
CallMade == call.pc # "idle"

\* request bodies that JSON.parse rejects
InvalidRequestBodies == {ReqBody.Invalid}

\* C1 (the claim as stated): when the caller's request body is not valid
\* JSON the fetch does not fail on it: no SyntaxError reaches the caller
\* (only a failure of the backend request can), and the request that is
\* dispatched is the caller's original one, body and all.
C1_InvalidJsonFailOpen ==
    (CallMade /\ call.init.body \in InvalidRequestBodies) =>
        /\ call.pc = "thrown" => call.error = "NetworkError"
        /\ call.dispatched # <<>> => call.dispatched[1].body = call.init.body

\* C2 (the claim as stated): when fetching the instruction payload fails,
\* the request attempt fails with that error and nothing is dispatched to
\* the backend.
C2_InstructionFailureFailsRequest ==
    (CallMade /\ call.instructions = "rejected") =>
        /\ call.dispatched = <<>>
        /\ call.pc \in {"returned", "thrown", "await-backend", "step6"} =>
              (call.pc = "thrown" /\ call.error = "InstructionFetchError")

\* a base URL is configured, in the plugin or in the provider configuration
BaseURLConfigured == Truthy(env.pluginBaseURL) \/ Truthy(env.providerBaseURL)

\* C9 (the claim as stated): with a base URL configured, a request the SDK
\* addresses to a .../responses path is dispatched to the corresponding
\* .../codex/responses path of that base URL.
C9_DispatchedToCodexEndpoint ==
    (/\ CallMade
     /\ BaseURLConfigured
     /\ call.dispatched # <<>>
     /\ EndsWith(call.input.url, URL_PATHS_RESPONSES)) =>
        EndsWith(call.dispatched[1].url, URL_PATHS_CODEX_RESPONSES)

\* the steps of one call, in the order the claim gives them
StepOrder ==
    <<{"url-rewrite"}, {"capture-stream"}, {"body-transform"}, {"dispatch"},
      {"response"}, {"response-translate", "error-remap"}>>

\* C10: for a single request the steps run in the fixed order URL rewrite,
\* body transformation (with the instruction fetch), dispatch, response
\* translation or error remapping: nothing is dispatched before the URL is
\* rewritten and the transformation has finished, no response exists before
\* the dispatch, and nothing is returned before the response has arrived.
C10_FixedStepOrder ==
    CallMade =>
        /\ Len(call.hist) <= Len(StepOrder)
        /\ \A i \in 1..Len(call.hist) : call.hist[i] \in StepOrder[i]
        /\ call.instructions # "none" => call.url # Undefined
        /\ call.dispatched # <<>> =>
              /\ call.url # Undefined
              /\ call.instructions # "pending"
              /\ Len(call.hist) >= 4 /\ call.hist[3] = "body-transform"
        /\ call.response.id # NullResponse.id => call.dispatched # <<>>
        /\ call.ret.id # NullResponse.id => call.response.id # NullResponse.id

\* C10 witness: a call with a transformed body went through all the steps
\* and returned the translated response.
C10_Witness ==
    /\ call.pc = "returned"
    /\ call.transformation.defined
    /\ call.hist = <<"url-rewrite", "capture-stream", "body-transform", "dispatch",
                    "response", "response-translate">>
    /\ call.dispatched[1].body = call.transformation.updatedInit.body
    /\ call.ret.id # NullResponse.id

\* request bodies whose stream field is the boolean true
StreamingBodies == {ReqBody.Stream}

\* the caller asked for a stream: the body it passed says stream: true
CallerStreams == HasBody(call.init) /\ call.init.body \in StreamingBodies

\* a successful backend response has been handled and returned
ReturnedOk == CallMade /\ call.pc = "returned" /\ Ok(call.response)

\* the headers are those of the response, the content type apart
SameHeadersButContentType(h, g) ==
    /\ DOMAIN h \ {"content-type"} = DOMAIN g \ {"content-type"}
    /\ \A k \in DOMAIN g \ {"content-type"} : h[k] = g[k]
    /\ "content-type" \in DOMAIN h

\* C11: for a successful backend response the result is, when the caller's
\* original body says stream: true (the boolean), the backend's own body
\* stream with the same status and status text and the same headers but for
\* the content type; and otherwise (no body, no stream field, false, or a
\* value such as the string "true") one JSON document converted from the
\* event stream, in a new body.  The flag is the one captured in step 2.
C11_StreamPassThroughElseJson ==
    ReturnedOk =>
        /\ call.isStreaming = CallerStreams
        /\ call.ret.status = call.response.status
        /\ call.ret.statusText = call.response.statusText
        /\ SameHeadersButContentType(call.ret.headers, call.response.headers)
        /\ IF CallerStreams
           THEN call.ret.body = call.response.body
           ELSE /\ call.ret.body.stream # call.response.body.stream
                /\ JSONParse(call.ret.body.content).ok

\* C11 witness: a caller whose body says stream: "true" (a string) got the
\* converted JSON document, although its request was transformed and sent.
C11_Witness ==
    /\ ReturnedOk
    /\ call.init.body = ReqBody.StreamString
    /\ call.transformation.defined
    /\ ~call.isStreaming
    /\ call.ret.body.content = "{\"output_text\":\"Hello\"}"

(***************************************************************************)
(* The instruction cache behind getCodexInstructions: one entry per model   *)
(* family, and at most one fetch in flight per family.                      *)
(***************************************************************************)
NumCallers == 3
MaxFetches == 2

Callers == 1 .. NumCallers
ModelFamilies == {getModelFamily("gpt-5.1-codex"), getModelFamily("gpt-5.1-codex-max")}

NoEntry == "\\none"
FetchFailed == "instruction fetch failed"

\* a caller that is not inside getInstructions
IdleCaller == [pc |-> "idle", family |-> "", gen |-> 0, result |-> ""]

\* the fetches in flight for a family
InFlight(c, f) == {h \in c.inflight : h.family = f}

\* a cache that starts a fetch whenever it holds no entry
MustFetchIgnoringPending(c, f) == c.cache[f] = NoEntry

\* getInstructions starts a fetch only when the family has neither an entry
\* nor a fetch in flight
MustFetch(c, f) == c.cache[f] = NoEntry /\ InFlight(c, f) = {}

InitCache ==
    /\ ic = [cache |-> [f \in ModelFamilies |-> NoEntry],
             inflight |-> {},
             fetches |-> [f \in ModelFamilies |-> 0],
             log |-> [f \in ModelFamilies |-> <<>>],
             callers |-> [c \in Callers |-> IdleCaller]]
    /\ rw = Idle /\ em = Idle /\ sse = Idle
    /\ env = Idle /\ sdk = Idle /\ call = Idle

\* the first caller for a family starts the one fetch and awaits it
GetInstructionsFetch(c, f) ==
    /\ ic.callers[c].pc = "idle"
    /\ MustFetch(ic, f)
    /\ ic.fetches[f] < MaxFetches
    /\ ic' = [ic EXCEPT
                !.fetches[f] = @ + 1,
                !.inflight = @ \cup {[family |-> f, gen |-> ic.fetches[f] + 1]},
                !.callers[c] = [pc |-> "awaiting", family |-> f,
                                gen |-> ic.fetches[f] + 1, result |-> ""]]
    /\ UNCHANGED <<rw, em, sse, env, sdk, call>>

\* a caller that finds a fetch in flight awaits that same fetch
GetInstructionsAttach(c, f) ==
    /\ ic.callers[c].pc = "idle"
    /\ ~MustFetch(ic, f)
    /\ ic.cache[f] = NoEntry
    /\ \E h \in InFlight(ic, f) :
          ic' = [ic EXCEPT !.callers[c] = [pc |-> "awaiting", family |-> f,
                                           gen |-> h.gen, result |-> ""]]
    /\ UNCHANGED <<rw, em, sse, env, sdk, call>>

\* a caller that finds the entry gets it without a fetch
GetInstructionsHit(c, f) ==
    /\ ic.callers[c].pc = "idle"
    /\ ~MustFetch(ic, f)
    /\ ic.cache[f] # NoEntry
    /\ ic' = [ic EXCEPT !.callers[c] = [pc |-> "resolved", family |-> f,
                                        gen |-> ic.fetches[f],
                                        result |-> ic.cache[f]]]
    /\ UNCHANGED <<rw, em, sse, env, sdk, call>>

\* every caller awaiting the fetch h settles the way the fetch did
Settle(callers, h, pc, result) ==
    [c \in Callers |->
        IF callers[c].pc = "awaiting" /\ callers[c].family = h.family
                                      /\ callers[c].gen = h.gen
        THEN [callers[c] EXCEPT !.pc = pc, !.result = result]
        ELSE callers[c]]

\* the fetch succeeds: the payload is memoized for the process lifetime
FetchResolve(h) ==
    /\ h \in ic.inflight
    /\ ic' = [ic EXCEPT
                !.inflight = @ \ {h},
                !.cache[h.family] = CodexInstructions(h.family),
                !.log[h.family] = Append(@, "resolved"),
                !.callers = Settle(@, h, "resolved", CodexInstructions(h.family))]
    /\ UNCHANGED <<rw, em, sse, env, sdk, call>>

\* the fetch fails: no entry is recorded and the error goes to the callers
FetchReject(h) ==
    /\ h \in ic.inflight
    /\ ic' = [ic EXCEPT
                !.inflight = @ \ {h},
                !.log[h.family] = Append(@, "rejected"),
                !.callers = Settle(@, h, "rejected", FetchFailed)]
    /\ UNCHANGED <<rw, em, sse, env, sdk, call>>

\* a settled caller goes on and may call again
CallerDone(c) ==
    /\ ic.callers[c].pc \in {"resolved", "rejected"}
    /\ ic' = [ic EXCEPT !.callers[c] = IdleCaller]
    /\ UNCHANGED <<rw, em, sse, env, sdk, call>>

NextCache ==
    \/ \E c \in Callers, f \in ModelFamilies : GetInstructionsFetch(c, f)
    \/ \E c \in Callers, f \in ModelFamilies : GetInstructionsAttach(c, f)
    \/ \E c \in Callers, f \in ModelFamilies : GetInstructionsHit(c, f)
    \/ \E h \in ic.inflight : FetchResolve(h)
    \/ \E h \in ic.inflight : FetchReject(h)
    \/ \E c \in Callers : CallerDone(c)

SpecCache == InitCache /\ [][NextCache]_vars

\* the callers of a family in a given position
CallersAt(f, pcs) ==
    {c \in Callers : ic.callers[c].family = f /\ ic.callers[c].pc \in pcs}

\* C12: whatever the number of concurrent callers of a family, at most one
\* fetch is in flight for it and every caller awaiting the family awaits that
\* one fetch; callers served by the same fetch all end with the same value
\* or all with the same failure; the family has an entry exactly when a fetch
\* of it succeeded, a success is the family's last fetch, and every fetch
\* before the last one failed (so a failure is not memoized and the next
\* call fetches again).
C12_SingleFlight ==
    \A f \in ModelFamilies :
        /\ Cardinality(InFlight(ic, f)) <= 1
        /\ ic.fetches[f] = Len(ic.log[f]) + Cardinality(InFlight(ic, f))
        /\ \A c \in CallersAt(f, {"awaiting"}) :
              [family |-> f, gen |-> ic.callers[c].gen] \in ic.inflight
        /\ \A c, d \in CallersAt(f, {"resolved", "rejected"}) :
              ic.callers[c].gen = ic.callers[d].gen =>
                  /\ ic.callers[c].pc = ic.callers[d].pc
                  /\ ic.callers[c].result = ic.callers[d].result
        /\ \A c \in CallersAt(f, {"resolved"}) :
              ic.callers[c].result = CodexInstructions(f)
        /\ (ic.cache[f] # NoEntry) <=>
              (ic.log[f] # <<>> /\ ic.log[f][Len(ic.log[f])] = "resolved")
        /\ \A i \in 1 .. Len(ic.log[f]) :
              ic.log[f][i] = "resolved" => i = ic.fetches[f]

\* C12 witness: the first fetch of a family failed, all three callers that
\* awaited it got the failure, no entry was left; since then one of them
\* called again, which started the second fetch.
C12_Witness ==
    \E f \in ModelFamilies :
        /\ ic.log[f] = <<"rejected">>
        /\ ic.cache[f] = NoEntry
        /\ ic.fetches[f] = 2
        /\ CallersAt(f, {"awaiting"}) # {}
        /\ Cardinality({c \in CallersAt(f, {"rejected"}) :
                            ic.callers[c].gen = 1}) >= 2

\* the names of an object's members
Keys(obj) == {obj[2][i][1] : i \in 1 .. Len(obj[2])}

\* the fields the transformation is allowed to change
TransformedFields == {"model", "instructions", "tools", "reasoning", "text"}

\* sent has every other field of orig, with the same value, and no further one
PreservedIn(orig, sent) ==
    /\ Keys(sent) \ TransformedFields = Keys(orig) \ TransformedFields
    /\ \A k \in Keys(orig) \ TransformedFields : OptGet(sent, k) = OptGet(orig, k)
    /\ OptGet(sent, "stream") = OptGet(orig, "stream")
    /\ OptGet(sent, "input") = OptGet(orig, "input")

\* a request was dispatched with a transformed body
DispatchedTransformed ==
    CallMade /\ call.dispatched # <<>> /\ call.transformation.defined

MaxEvents == 3

\* the valid events: text deltas and the completion event
SseEvents ==
    {[kind |-> "delta", text |-> "Hel"], [kind |-> "delta", text |-> "lo"],
     [kind |-> "completed", text |-> ""]}

\* corrupt events: payloads that are not JSON, JSON that is no event object,
\* an event of an unexpected type, a block without a data field
CorruptBlocks ==
    {"data: {oops", "data: 42", "data: {\"type\":\"response.unknown\",\"delta\":\"ZZ\"}",
     "event: ping"}

EventBlock(e) ==
    IF e.kind = "delta"
    THEN "data: {\"type\":\"response.output_text.delta\",\"delta\":\"" \o e.text \o "\"}"
    ELSE "data: {\"type\":\"response.completed\"}"

\* the body text of a stream of event blocks, each ended by a blank line
RECURSIVE SseText(_)
SseText(blocks) ==
    IF blocks = <<>> THEN "" ELSE Head(blocks) \o "\n\n" \o SseText(Tail(blocks))

\* blocks with the block b put in after the first pos of them
InsertAt(blocks, pos, b) ==
    SubSeq(blocks, 1, pos) \o <<b>> \o SubSeq(blocks, pos + 1, Len(blocks))

EventBlocks(events) == [i \in 1 .. Len(events) |-> EventBlock(events[i])]

InitSse ==
    /\ sse \in {[state |-> "input", events |-> ev, pos |-> pos, corrupt |-> c,
                 plain |-> "", dirty |-> ""] :
                    ev \in UNION {[1 .. n -> SseEvents] : n \in 0 .. MaxEvents},
                    pos \in 0 .. MaxEvents, c \in CorruptBlocks}
    /\ sse.pos <= Len(sse.events)
    /\ rw = Idle /\ em = Idle /\ ic = Idle
    /\ env = Idle /\ sdk = Idle /\ call = Idle

\* the stream is decoded as it is and with the corrupt event inserted
ApplyConvertSse ==
    /\ sse.state = "input"
    /\ sse' = [sse EXCEPT
                 !.state = "returned",
                 !.plain = SseToJson(SseText(EventBlocks(sse.events))),
                 !.dirty = SseToJson(SseText(InsertAt(EventBlocks(sse.events),
                                                      sse.pos, sse.corrupt)))]
    /\ UNCHANGED <<rw, em, ic, env, sdk, call>>

NextSse == ApplyConvertSse

SpecSse == InitSse /\ [][NextSse]_vars

\* the text the valid events carry up to the completion event, if any
RECURSIVE TextBeforeCompletion(_)
TextBeforeCompletion(events) ==
    IF events = <<>> \/ Head(events).kind = "completed" THEN ""
    ELSE Head(events).text \o TextBeforeCompletion(Tail(events))

HasCompletion(events) == \E i \in 1 .. Len(events) : events[i].kind = "completed"

\* C14: decoding a stream of valid events with one corrupt event inserted
\* anywhere gives the same JSON document as decoding it without that event,
\* namely the document of the text deltas in order up to the completion
\* event; a stream without a completion event gives the document of all its
\* deltas.
C14_CorruptEventSkipped ==
    sse.state = "returned" =>
        /\ sse.dirty = sse.plain
        /\ sse.plain = "{\"output_text\":\"" \o TextBeforeCompletion(sse.events) \o "\"}"

\* C14 witness: a stream of two deltas and no completion event, with a
\* non-JSON event between the two, decoded to the document of both deltas.
C14_Witness ==
    /\ sse.state = "returned"
    /\ ~HasCompletion(sse.events)
    /\ Len(sse.events) = 2 /\ sse.pos = 1
    /\ sse.corrupt = "data: {oops"
    /\ sse.dirty = "{\"output_text\":\"Hello\"}"

\* the loader has returned
LoaderReturned == sdk.state \in {"empty", "ready"}

\* what a sequence holds
Range(seq) == {seq[i] : i \in 1 .. Len(seq)}

\* C15: with a credential that is not an API key the loader returns the
\* empty configuration (no fetch, no apiKey, no baseURL), it has not loaded
\* the plugin configuration, and no call ever enters the pipeline.
C15_NonApiKeyEmptyConfig ==
    (LoaderReturned /\ env.authType # "api") =>
        /\ sdk.state = "empty"
        /\ DOMAIN sdk \cap {"apiKey", "baseURL", "codexMode"} = {}
        /\ "loadPluginConfig" \notin Range(sdk.effects)
        /\ call = Idle

\* C15 witness: the loader returned the empty configuration for an OAuth
\* credential although a plugin configuration with a baseURL was there.
C15_Witness ==
    /\ sdk.state = "empty"
    /\ env.authType = "oauth"
    /\ env.pluginBaseURL # Undefined
    /\ sdk.effects = <<"getAuth", "console.error">>

\* the headers the loader's fetch sets itself
OwnHeaders == {"authorization", "content-type"}

\* a request was handed to the global fetch
Dispatched == CallMade /\ call.dispatched # <<>>

\* sent has the two headers of the fetch, with its values
CarriesOwnHeaders(sent, apiKey) ==
    /\ OwnHeaders \subseteq DOMAIN sent
    /\ sent["authorization"] = "Bearer " \o apiKey
    /\ sent["content-type"] = "application/json"

\* sent has every header of given that is not one of the fetch's own
KeepsOthers(sent, given) ==
    \A k \in DOMAIN given :
        ToLowerCase(k) \notin OwnHeaders =>
            /\ ToLowerCase(k) \in DOMAIN sent
            /\ sent[ToLowerCase(k)] = given[k]

\* C16 (the claim as stated): every dispatched request carries the two
\* headers with the loader's values and keeps every other header the caller
\* supplied, in the init or in a Request object passed as input.
C16_AllCallerHeadersKept ==
    Dispatched =>
        /\ CarriesOwnHeaders(call.dispatched[1].headers, sdk.apiKey)
        /\ KeepsOthers(call.dispatched[1].headers, call.init.headers)
        /\ KeepsOthers(call.dispatched[1].headers, call.input.headers)

\* C16 (amended): every dispatched request carries Authorization: Bearer
\* <apiKey> and Content-Type: application/json, whatever the caller's init
\* said for them and however it spelled their names, and keeps every other
\* header of the caller's init, with a transformed body as with the original
\* init; it has no header from anywhere else.
C16_InitHeadersKept ==
    Dispatched =>
        /\ CarriesOwnHeaders(call.dispatched[1].headers, sdk.apiKey)
        /\ KeepsOthers(call.dispatched[1].headers, call.init.headers)
        /\ DOMAIN call.dispatched[1].headers =
              OwnHeaders \cup {ToLowerCase(k) : k \in DOMAIN call.init.headers}

\* C16 witness: the caller's init said Authorization: Bearer caller and
\* Content-Type: text/plain; the original init was forwarded (its body is
\* not valid for a transformation) with the loader's two values and x-trace.
C16_Witness ==
    /\ Dispatched
    /\ ~call.transformation.defined
    /\ call.init.present
    /\ "authorization" \in DOMAIN call.init.headers
    /\ call.init.headers["Content-Type"] = "text/plain"
    /\ call.dispatched[1].headers["authorization"] = "Bearer sk-test"
    /\ call.dispatched[1].headers["x-trace"] = "t-1"

StartsWith(s, prefix) == Len(s) >= Len(prefix) /\ SubSeq(s, 1, Len(prefix)) = prefix

\* C17: every request dispatched through the fetch of a loader invocation
\* goes to a URL under the base URL chosen from what the loader saw (plugin
\* configuration, else provider configuration, else the default), carries
\* the API key the loader saw, and, when its body was transformed, has the
\* bridge instruction exactly when CODEX_MODE was on when the loader ran;
\* whatever the configuration and the credential have become since.
C17_ResolvedOncePerLoader ==
    Dispatched =>
        /\ call.dispatched[1].headers["authorization"] = "Bearer " \o sdk.seen.apiKey
        /\ StartsWith(call.dispatched[1].url,
                      IF sdk.seen.pluginBaseURL # Undefined THEN sdk.seen.pluginBaseURL
                      ELSE IF sdk.seen.providerBaseURL # Undefined
                           THEN sdk.seen.providerBaseURL
                           ELSE CODEX_BASE_URL)
        /\ call.transformation.defined =>
              (Includes(call.dispatched[1].body, BridgeInstruction) <=> sdk.seen.codexMode)

\* C17 witness: after the loader returned, the key and the plugin base URL
\* were replaced and CODEX_MODE was switched off; a request made and
\* transformed after that still went out with the old key, under the old
\* base URL and with the bridge instruction.
C17_Witness ==
    /\ Dispatched
    /\ call.transformation.defined
    /\ env.apiKey = Rotated.key /\ env.pluginBaseURL = Rotated.baseURL
    /\ sdk.seen.codexMode /\ ~env.codexMode
    /\ sdk.seen.pluginBaseURL = "https://plugin.example.com"
    /\ call.dispatched[1].headers["authorization"] = "Bearer sk-test"
    /\ StartsWith(call.dispatched[1].url, "https://plugin.example.com")
    /\ Includes(call.dispatched[1].body, BridgeInstruction)

\* the fetch has returned a response to its caller
Returned == CallMade /\ call.pc = "returned"

\* the backend's response is a 404 whose body names a usage limit
UsageLimit404 ==
    /\ call.response.status = HTTP_STATUS_NOT_FOUND
    /\ call.response.body.content \in {Body.UsageLimitCode}

\* C18: a backend response that is not ok (status outside 200..299) goes
\* through the error remapper only: it is handed back with the backend's own
\* body stream, never decoded, and with the backend's status, except that a
\* 404 naming a usage limit comes back as 429; an ok response goes through
\* the response translator only and keeps its status.
C18_OnePathPerResponse ==
    Returned =>
        LET steps == Range(call.hist)
            ok == call.response.status \in 200 .. 299
        IN  /\ ok => /\ "response-translate" \in steps
                     /\ "error-remap" \notin steps
                     /\ call.ret.status = call.response.status
            /\ ~ok => /\ "error-remap" \in steps
                      /\ "response-translate" \notin steps
                      /\ call.ret.body = call.response.body
                      /\ call.ret.status =
                            IF UsageLimit404 THEN HTTP_STATUS_TOO_MANY_REQUESTS
                            ELSE call.response.status

\* C18 witness: the backend answered 404 with a usage-limit code; the
\* caller got 429 by way of the error remapper, the body stream untouched.
C18_Witness ==
    /\ Returned
    /\ UsageLimit404
    /\ call.ret.status = HTTP_STATUS_TOO_MANY_REQUESTS
    /\ call.ret.body = call.response.body
    /\ call.hist[Len(call.hist)] = "error-remap"

====
